---- MODULE Spec2Model ----
(***************************************************************************)
(* TriggerClient (packages/trigger-sdk/src/client.ts): the reconnecting    *)
(* host connection, the registration handshake, the TRIGGER_WORKFLOW run   *)
(* executor with its START/COMPLETE/ERROR promise chain, the journaled     *)
(* context operations and the RESOLVE_* / REJECT_* handlers with their     *)
(* pending-call callback maps.                                             *)
(*                                                                         *)
(* HostConnection (./connection) and ZodRPC (internal-bridge) are not part *)
(* of the source tree at hand; their behaviour is taken from the design    *)
(* document: send writes one frame and then succeeds, is rejected by the   *)
(* server, or times out; resetConnection rebinds the channel and keeps the *)
(* handlers; a channel failure always surfaces as a close event.           *)
(***************************************************************************)
EXTENDS Integers, Sequences, FiniteSets, TLC

VARIABLES
    closedByUser,      \* #closedByUser
    isConnected,       \* #isConnected
    serverRPC,         \* #serverRPC: 0 when undefined, else the ZodRPC object
    connection,        \* #connection: 0 when undefined, else the HostConnection
    registerResponse,  \* #registerResponse: 0 when undefined, else the connection whose handshake returned it
    conns,             \* every HostConnection constructed so far, in order
    rpcConn,           \* per ZodRPC object, the connection it is bound to
    loops,             \* the reconnect loops (onClose handlers) asleep in their backoff
    listenPc,          \* position of the listen() call in flight
    listens,           \* listen() calls made so far
    closes,            \* close() calls made by the user so far
    closed,            \* close() has run and listen() has not been called since
    uuids,             \* v4() calls made so far
    runs,              \* per runId, the TRIGGER_WORKFLOW handler's promise chain
    calls,             \* every journaled context call made so far, in order
    callbacks,         \* the seven pending-call callback maps
    ack                \* what the last server-to-client handler returned

connVars == <<closedByUser, isConnected, serverRPC, connection, registerResponse,
              conns, rpcConn, loops, listenPc, listens, closes, closed, uuids>>
\* the client's side of the connection without the HostConnections themselves
clientVars == <<closedByUser, isConnected, serverRPC, connection, registerResponse,
                rpcConn, loops, listenPc, listens, closes, closed, uuids>>
runVars == <<runs, calls, callbacks, ack>>
vars == <<closedByUser, isConnected, serverRPC, connection, registerResponse,
          conns, rpcConn, loops, listenPc, listens, closes, closed, uuids,
          runs, calls, callbacks, ack>>

----------------------------------------------------------------------------
(* Bounds *)

\* run ids the server triggers when the connection is stable
MaxRuns == 2
\* user keys a workflow function uses
MaxKeys == 1
\* journaled context calls made in total
MaxCalls == 1
\* HostConnections constructed in total (dial attempts)
MaxConns == 3
\* listen() calls
MaxListens == 2
\* close() calls made by the user
MaxCloses == 1
\* sends of INITIALIZE_HOST_V2 by one #initializeHost
MaxTries == 2
\* asynchronous tasks followed per run: the user function and what it spawns
MaxTasks == 3
\* journaled context calls made in total by concurrent runs that are observed together
MaxPairCalls == 2

RunName(i) == "r" \o ToString(i)
KeyName(i) == "k" \o ToString(i)
RunIds == {RunName(i) : i \in 1..MaxRuns}
Keys == {KeyName(i) : i \in 1..MaxKeys}

----------------------------------------------------------------------------
(* The pending-call callback maps *)

\* (mutant) the key of an entry is the user key alone
messageKeyOfUserKey(runId, key) == key

messageKey(runId, key) == runId \o ":" \o key

CallKeys == {messageKey(r, k) : r \in RunIds, k \in Keys}

Tables == {"responseCompleteCallbacks", "waitForCallbacks", "fetchCallbacks",
           "runOnceCallbacks", "kvGetCallbacks", "kvSetCallbacks",
           "kvDeleteCallbacks"}

\* the journaled operations of the context and of the ambient bundle
Ops == {"fetch", "kvGet", "kvSet", "kvDelete", "waitFor", "waitUntil",
        "runOnce", "runOnceLocalOnly", "performRequest"}

\* the map an operation registers its (resolve, reject) pair in
OpTable(op) ==
    CASE op = "fetch" -> "fetchCallbacks"
      [] op = "kvGet" -> "kvGetCallbacks"
      [] op = "kvSet" -> "kvSetCallbacks"
      [] op = "kvDelete" -> "kvDeleteCallbacks"
      [] op \in {"waitFor", "waitUntil"} -> "waitForCallbacks"
      [] op \in {"runOnce", "runOnceLocalOnly"} -> "runOnceCallbacks"
      [] op = "performRequest" -> "responseCompleteCallbacks"

\* the intent RPC an operation sends
OpIntent(op) ==
    CASE op = "fetch" -> "SEND_FETCH"
      [] op = "kvGet" -> "SEND_KV_GET"
      [] op = "kvSet" -> "SEND_KV_SET"
      [] op = "kvDelete" -> "SEND_KV_DELETE"
      [] op \in {"waitFor", "waitUntil"} -> "INITIALIZE_DELAY"
      [] op \in {"runOnce", "runOnceLocalOnly"} -> "INITIALIZE_RUN_ONCE"
      [] op = "performRequest" -> "SEND_REQUEST"

\* the server-to-client methods that fulfil a suspended call
ResolveMethods == {"RESOLVE_DELAY", "RESOLVE_RUN_ONCE", "RESOLVE_REQUEST",
                   "RESOLVE_FETCH_REQUEST", "RESOLVE_KV_GET", "RESOLVE_KV_SET",
                   "RESOLVE_KV_DELETE"}
RejectMethods == {"REJECT_REQUEST", "REJECT_FETCH_REQUEST"}
HostMethods == ResolveMethods \cup RejectMethods

\* the map a handler looks its callbacks up in
MethodTable(m) ==
    CASE m = "RESOLVE_DELAY" -> "waitForCallbacks"
      [] m = "RESOLVE_RUN_ONCE" -> "runOnceCallbacks"
      [] m \in {"RESOLVE_REQUEST", "REJECT_REQUEST"} -> "responseCompleteCallbacks"
      [] m \in {"RESOLVE_FETCH_REQUEST", "REJECT_FETCH_REQUEST"} -> "fetchCallbacks"
      [] m = "RESOLVE_KV_GET" -> "kvGetCallbacks"
      [] m = "RESOLVE_KV_SET" -> "kvSetCallbacks"
      [] m = "RESOLVE_KV_DELETE" -> "kvDeleteCallbacks"

\* outcomes of one serverRPC.send: acknowledged, rejected by the server, timed out
SendOutcomes == {"ok", "rejected", "timeout"}

----------------------------------------------------------------------------
(* State after construction *)

\* what a server-to-client handler returned, whether it found callbacks, and whether
\* the promise of the callbacks it found had settled before
NoAck == [ret |-> "none", found |-> FALSE, settled |-> FALSE]

\* a run before its TRIGGER_WORKFLOW; frames holds, for each asynchronous task that
\* descends from the function given to triggerRunLocalStorage.run, the store it is
\* linked to, and seen the stores those tasks read; error is the error of its last
\* SEND_WORKFLOW_ERROR and handler what its TRIGGER_WORKFLOW handler did at its end;
\* thrown is the value the promise of its user function rejected with
NoRun == [st |-> "idle", rpc |-> 0, valid |-> FALSE, invoked |-> FALSE,
          outcome |-> "none", nStart |-> 0, startAcked |-> FALSE,
          nComplete |-> 0, nError |-> 0, failed |-> {}, unhandled |-> FALSE,
          frames |-> <<>>, seen |-> {}, error |-> "none", handler |-> "none",
          thrown |-> "none"]

InitRuns ==
    /\ runs = [r \in RunIds |-> NoRun]
    /\ calls = <<>>
    /\ callbacks = [t \in Tables |-> [ck \in CallKeys |-> 0]]
    /\ ack = NoAck

\* the client as the constructor leaves it
Init ==
    /\ closedByUser = FALSE
    /\ isConnected = FALSE
    /\ serverRPC = 0
    /\ connection = 0
    /\ registerResponse = 0
    /\ conns = <<>>
    /\ rpcConn = <<>>
    /\ loops = <<>>
    /\ listenPc = "idle"
    /\ listens = 0
    /\ closes = 0
    /\ closed = FALSE
    /\ uuids = 0
    /\ InitRuns

\* a HostConnection as #initializeConnection constructs it, before connect() settles:
\* its session id, who dialled it (listen or a reconnect loop) and for which listen(),
\* where its onClose handler and its #initializeHost stand, and what its channel
\* carried: intents are the calls whose intent frames were written to it, in order
NewConn(sid, via, root) ==
    [sid |-> sid, st |-> "dialing", via |-> via, root |-> root, closedBy |-> "none",
     onClose |-> "none", host |-> "none", tries |-> 0, initOn |-> 0, init |-> 0,
     early |-> FALSE, intents |-> <<>>]

\* the connection side of the client after a listen() that connected and registered
Listening ==
    /\ closedByUser = FALSE
    /\ isConnected = TRUE
    /\ serverRPC = 1
    /\ connection = 1
    /\ registerResponse = 1
    /\ conns = <<[NewConn(1, "listen", 1) EXCEPT !.st = "open", !.host = "ok", !.tries = 1,
                                                  !.initOn = 1, !.init = 1]>>
    /\ rpcConn = <<1>>
    /\ loops = <<>>
    /\ listenPc = "idle"
    /\ listens = 1
    /\ closes = 0
    /\ closed = FALSE
    /\ uuids = 0

\* the client after a listen() that connected and registered, before any run
InitListening == Listening /\ InitRuns

----------------------------------------------------------------------------
(* ZodRPC.send and the wire *)

\* the channel a ZodRPC object writes to is open
Writable(rpc) == rpc # 0 /\ conns[rpcConn[rpc]].st = "open"

\* a workflow RPC (anything but INITIALIZE_HOST_V2) written through ZodRPC rpc:
\* the channel remembers whether it carried one before its handshake
WriteWorkflowRPC(cs, rpc) ==
    IF rpc # 0 /\ cs[rpcConn[rpc]].st = "open" /\ cs[rpcConn[rpc]].init = 0
    THEN [cs EXCEPT ![rpcConn[rpc]].early = TRUE]
    ELSE cs

\* the intent RPC of call id written through ZodRPC rpc: one more frame on its channel
WriteIntent(cs, rpc, id) ==
    IF rpc # 0 /\ cs[rpcConn[rpc]].st = "open"
    THEN [WriteWorkflowRPC(cs, rpc) EXCEPT ![rpcConn[rpc]].intents = Append(@, id)]
    ELSE cs

\* the replies a send can get: a reply needs an open channel, a timeout does not
Replies(rpc) == IF Writable(rpc) THEN SendOutcomes ELSE {"timeout"}

----------------------------------------------------------------------------
(* listen, close and the reconnecting connection *)

\* instanceId of listen(instanceId?): 0 when it is not supplied
InstanceIds == {0, 1}

\* v4(): the n-th generated id, distinct from every supplied id and every other one
v4(n) == 10 + n

\* HostConnection.close() on #connection: an open socket starts closing and its close
\* event follows; nothing happens without a connection or on a closed one
CloseSocket(cs, k) ==
    IF k # 0 /\ cs[k].st = "open"
    THEN [cs EXCEPT ![k].st = "closing", ![k].closedBy = "user"]
    ELSE cs

\* first lines of the onClose handler: a close by the user is consumed, anything else
\* goes on to the reconnect decision after `await import("chalk")`
OnCloseEntered(byUser) == IF byUser THEN "done" ELSE "import"

\* (mutant) the reconnect dials without passing the id on, so a new one is generated
ReconnectIdFresh(c) == v4(c.sid)

\* the id a reconnect loop dials with
ReconnectId(c) == c.sid

\* listen(instanceId): #initializeConnection constructs a HostConnection and awaits connect()
Listen(instanceId) ==
    /\ listenPc = "idle"
    /\ serverRPC = 0
    /\ listens < MaxListens
    /\ Len(conns) < MaxConns
    /\ LET id == IF instanceId # 0 THEN instanceId ELSE v4(uuids + 1)
       IN conns' = Append(conns, NewConn(id, "listen", Len(conns) + 1))
    /\ uuids' = IF instanceId # 0 THEN uuids ELSE uuids + 1
    /\ listens' = listens + 1
    /\ listenPc' = "connect"
    /\ closed' = FALSE
    /\ UNCHANGED <<closedByUser, isConnected, serverRPC, connection, registerResponse,
                   rpcConn, loops, closes, runVars>>

\* close()
Close ==
    /\ closes < MaxCloses
    /\ closes' = closes + 1
    /\ closedByUser' = TRUE
    /\ serverRPC' = 0
    /\ conns' = CloseSocket(conns, connection)
    /\ isConnected' = FALSE
    /\ closed' = TRUE
    /\ UNCHANGED <<connection, registerResponse, rpcConn, loops, listenPc, listens,
                   uuids, runVars>>

\* (mutant) a connection that opens starts with empty pending-call tables
DialOkDroppingCallbacks(c) ==
    /\ c \in 1..Len(conns)
    /\ conns[c].st = "dialing"
    /\ connection' = c
    /\ isConnected' = TRUE
    /\ IF serverRPC # 0
       THEN /\ rpcConn' = [rpcConn EXCEPT ![serverRPC] = c]
            /\ conns' = [conns EXCEPT ![c].st = "open", ![c].host = "probe"]
            /\ UNCHANGED <<serverRPC, listenPc>>
       ELSE IF conns[c].via = "listen"
            THEN /\ rpcConn' = Append(rpcConn, c)
                 /\ serverRPC' = Len(rpcConn) + 1
                 /\ conns' = [conns EXCEPT ![c].st = "open", ![c].host = "probe"]
                 /\ listenPc' = "host"
            ELSE /\ conns' = [conns EXCEPT ![c].st = "open"]
                 /\ UNCHANGED <<rpcConn, serverRPC, listenPc>>
    /\ callbacks' = [t \in Tables |-> [ck \in CallKeys |-> 0]]
    /\ UNCHANGED <<closedByUser, registerResponse, loops, listens, closes, closed, uuids,
                   runs, calls, ack>>

\* connect() of connection c resolves: the rest of #initializeConnection, and for the
\* connection of listen() also #initializeRPC and the start of #initializeHost
DialOk(c) ==
    /\ c \in 1..Len(conns)
    /\ conns[c].st = "dialing"
    /\ connection' = c
    /\ isConnected' = TRUE
    /\ IF serverRPC # 0
       THEN /\ rpcConn' = [rpcConn EXCEPT ![serverRPC] = c]
            /\ conns' = [conns EXCEPT ![c].st = "open", ![c].host = "probe"]
            /\ UNCHANGED <<serverRPC, listenPc>>
       ELSE IF conns[c].via = "listen"
            THEN /\ rpcConn' = Append(rpcConn, c)
                 /\ serverRPC' = Len(rpcConn) + 1
                 /\ conns' = [conns EXCEPT ![c].st = "open", ![c].host = "probe"]
                 /\ listenPc' = "host"
            ELSE /\ conns' = [conns EXCEPT ![c].st = "open"]
                 /\ UNCHANGED <<rpcConn, serverRPC, listenPc>>
    /\ UNCHANGED <<closedByUser, registerResponse, loops, listens, closes, closed, uuids,
                   runVars>>

\* connect() of connection c fails: its close event runs the onClose handler and the
\* rejection reaches the caller, in either order; listen() catches it and calls
\* close(), the reconnect loop swallows it
DialFail(c, handlerFirst) ==
    /\ c \in 1..Len(conns)
    /\ conns[c].st = "dialing"
    /\ IF conns[c].via = "listen"
       THEN /\ closedByUser' = handlerFirst
            /\ conns' = CloseSocket(
                   [conns EXCEPT ![c].st = "closed", ![c].closedBy = "peer",
                                 ![c].onClose = OnCloseEntered(~handlerFirst \/ closedByUser)],
                   connection)
            /\ serverRPC' = 0
            /\ isConnected' = FALSE
            /\ listenPc' = "idle"
            /\ closed' = TRUE
       ELSE /\ handlerFirst
            /\ closedByUser' = FALSE
            /\ conns' = [conns EXCEPT ![c].st = "closed", ![c].closedBy = "peer",
                                      ![c].onClose = OnCloseEntered(closedByUser)]
            /\ UNCHANGED <<serverRPC, isConnected, listenPc, closed>>
    /\ UNCHANGED <<connection, registerResponse, rpcConn, loops, listens, closes, uuids,
                   runVars>>

\* the close event of connection c: requested by close(), or involuntary
OnClose(c) ==
    /\ c \in 1..Len(conns)
    /\ conns[c].st \in {"open", "closing"}
    /\ closedByUser' = FALSE
    /\ conns' = [conns EXCEPT ![c].st = "closed",
                              ![c].closedBy = IF conns[c].st = "open" THEN "peer" ELSE @,
                              ![c].onClose = OnCloseEntered(closedByUser)]
    /\ UNCHANGED <<isConnected, serverRPC, connection, registerResponse, rpcConn, loops,
                   listenPc, listens, closes, closed, uuids, runVars>>

\* the onClose handler of c after its dynamic import: it returns when a reconnect is
\* under way, else it starts the reconnect loop, whose first pass dials at once
OnCloseReconnect(c) ==
    /\ c \in 1..Len(conns)
    /\ conns[c].onClose = "import"
    /\ IF ~isConnected
       THEN /\ conns' = [conns EXCEPT ![c].onClose = "done"]
            /\ UNCHANGED <<isConnected, loops>>
       ELSE /\ Len(conns) < MaxConns
            /\ isConnected' = FALSE
            /\ conns' = Append([conns EXCEPT ![c].onClose = "done"],
                               NewConn(ReconnectId(conns[c]), "reconnect", conns[c].root))
            /\ loops' = Append(loops, [sid |-> ReconnectId(conns[c]), root |-> conns[c].root])
    /\ UNCHANGED <<closedByUser, serverRPC, connection, registerResponse, rpcConn,
                   listenPc, listens, closes, closed, uuids, runVars>>

\* a sequence without its i-th element
Without(seq, i) == [j \in 1..(Len(seq) - 1) |-> IF j < i THEN seq[j] ELSE seq[j + 1]]

\* reconnect loop i wakes from its backoff: it ends when connected, else dials again
LoopWake(i) ==
    /\ i \in 1..Len(loops)
    /\ IF isConnected
       THEN /\ loops' = Without(loops, i)
            /\ conns' = conns
       ELSE /\ Len(conns) < MaxConns
            /\ conns' = Append(conns, NewConn(loops[i].sid, "reconnect", loops[i].root))
            /\ loops' = loops
    /\ UNCHANGED <<closedByUser, isConnected, serverRPC, connection, registerResponse,
                   rpcConn, listenPc, listens, closes, closed, uuids, runVars>>

----------------------------------------------------------------------------
(* #initializeHost and #send: the registration handshake *)

\* ZodRPC.send("INITIALIZE_HOST_V2") by the handshake of connection c: the frame goes to
\* the channel #serverRPC is bound to at that moment
SendInitializeHost(cs, c) ==
    LET on == rpcConn[serverRPC]
        sent == [cs EXCEPT ![c].host = "sent", ![c].tries = @ + 1, ![c].initOn = on]
    IN IF cs[on].st = "open" THEN [sent EXCEPT ![on].init = @ + 1] ELSE sent

\* the answers of the server to INITIALIZE_HOST_V2
HostAnswers == {"success", "error"}

\* what the send of INITIALIZE_HOST_V2 settles with: an answer, or a TimeoutError
HostReplies == HostAnswers \cup {"timeout"}

\* (mutant) listen() lets the error of #initializeHost go without calling close()
HostFailedWithoutClose(c) ==
    /\ conns' = [conns EXCEPT ![c].host = "failed"]
    /\ listenPc' = IF conns[c].via = "listen" THEN "idle" ELSE listenPc
    /\ closed' = (closed \/ conns[c].via = "listen")
    /\ UNCHANGED <<closedByUser, serverRPC, isConnected>>

\* #initializeHost of connection c throws: listen() catches, logs and calls close();
\* the reconnect loop's .catch(() => {}) swallows it
HostFailed(c) ==
    IF conns[c].via = "listen"
    THEN /\ conns' = CloseSocket([conns EXCEPT ![c].host = "failed"], connection)
         /\ closedByUser' = TRUE
         /\ serverRPC' = 0
         /\ isConnected' = FALSE
         /\ listenPc' = "idle"
         /\ closed' = TRUE
    ELSE /\ conns' = [conns EXCEPT ![c].host = "failed"]
         /\ UNCHANGED <<closedByUser, serverRPC, isConnected, listenPc, closed>>

\* the probes of #initializeHost (repository, package metadata) are done and #send
\* makes its first attempt; without #serverRPC it throws
HostProbed(c) ==
    /\ c \in 1..Len(conns)
    /\ conns[c].host = "probe"
    /\ IF serverRPC = 0
       THEN HostFailed(c)
       ELSE /\ conns' = SendInitializeHost(conns, c)
            /\ UNCHANGED <<closedByUser, serverRPC, isConnected, listenPc, closed>>
    /\ UNCHANGED <<connection, registerResponse, rpcConn, loops, listens, closes, uuids,
                   runVars>>

\* the send of INITIALIZE_HOST_V2 settles: success stores the registration record,
\* an error response throws, a TimeoutError sleeps and retries
HostReplied(c, o) ==
    /\ c \in 1..Len(conns)
    /\ conns[c].host = "sent"
    /\ o # "timeout" => conns[conns[c].initOn].st = "open"
    /\ CASE o = "success" ->
              /\ registerResponse' = conns[c].initOn
              /\ conns' = [conns EXCEPT ![c].host = "ok"]
              /\ listenPc' = IF conns[c].via = "listen" THEN "idle" ELSE listenPc
              /\ UNCHANGED <<closedByUser, serverRPC, isConnected, closed>>
         [] o = "error" ->
              /\ HostFailed(c)
              /\ UNCHANGED registerResponse
         [] o = "timeout" ->
              /\ conns[c].tries < MaxTries
              /\ conns' = [conns EXCEPT ![c].host = "sleep"]
              /\ UNCHANGED <<closedByUser, serverRPC, isConnected, listenPc, closed,
                             registerResponse>>
    /\ UNCHANGED <<connection, rpcConn, loops, listens, closes, uuids, runVars>>

\* (mutant) #send gives up after one TimeoutError
HostRetryGivesUp(c) ==
    /\ c \in 1..Len(conns)
    /\ conns[c].host = "sleep"
    /\ HostFailed(c)
    /\ UNCHANGED <<connection, registerResponse, rpcConn, loops, listens, closes, uuids,
                   runVars>>

\* #send wakes from its sleep and sends again; this.#serverRPC.send throws a TypeError
\* when close() has cleared #serverRPC, which #send rethrows
HostRetry(c) ==
    /\ c \in 1..Len(conns)
    /\ conns[c].host = "sleep"
    /\ IF serverRPC = 0
       THEN HostFailed(c)
       ELSE /\ conns' = SendInitializeHost(conns, c)
            /\ UNCHANGED <<closedByUser, serverRPC, isConnected, listenPc, closed>>
    /\ UNCHANGED <<connection, registerResponse, rpcConn, loops, listens, closes, uuids,
                   runVars>>

----------------------------------------------------------------------------
(* The client from construction: listen, close, reconnect, handshake.  The server    *)
(* answers every INITIALIZE_HOST_V2 it receives; a handshake whose connection    *)
(* closed first stays unanswered.                                                *)

Next ==
    \/ \E instanceId \in InstanceIds : Listen(instanceId)
    \/ Close
    \/ \E c \in 1..MaxConns : DialOk(c)
    \/ \E c \in 1..MaxConns, handlerFirst \in BOOLEAN : DialFail(c, handlerFirst)
    \/ \E c \in 1..MaxConns : OnClose(c)
    \/ \E c \in 1..MaxConns : OnCloseReconnect(c)
    \/ \E i \in 1..MaxConns : LoopWake(i)
    \/ \E c \in 1..MaxConns : HostProbed(c)
    \/ \E c \in 1..MaxConns, o \in HostAnswers : HostReplied(c, o)

Spec == Init /\ [][Next]_vars

----------------------------------------------------------------------------
(* TRIGGER_WORKFLOW handler: validation and the START/COMPLETE/ERROR chain *)

\* a ZodRPC object whose channel is open can deliver a server message
Receiving == {rpc \in 1..Len(rpcConn) : conns[rpcConn[rpc]].st = "open"}

\* the values a send rejects with: what ZodRPC throws when the server refuses the
\* request, and the TimeoutError of an unanswered one
SendFailures == {"rejected", "timeout"}

\* the values that are instances of Error: a thrown Error, the failures of a send, the
\* ZodError of schema.parse
ErrorInstances == {"Error"} \cup SendFailures \cup {"ZodError"}

\* what user code can throw besides an Error: {name: "n", message: "m"}, the same with
\* a key more, an object without message, an object whose name and message are
\* numbers, a string, undefined
ThrownValues == {"Error", "object", "objectExtra", "objectNoMessage", "objectNumbers",
                 "string", "undefined"}

\* the keys of a thrown value that is a plain object (the error a REJECT_* carries is
\* {name, message})
OwnKeys(v) ==
    CASE v \in {"object", "objectNumbers", "error1", "error2"} -> {"name", "message"}
      [] v = "objectExtra" -> {"name", "message", "code"}
      [] v = "objectNoMessage" -> {"name"}
      [] OTHER -> {}

\* the keys of v that hold a string
StringKeys(v) == IF v = "objectNumbers" THEN {} ELSE OwnKeys(v)

\* {name: error.name, message: error.message, stackTrace: error.stack}
Normalized(v) == "{name,message,stackTrace} of " \o v

\* z.object({name: z.string(), message: z.string()}).passthrough().safeParse(v)
\* succeeds; its data is then v with every key v has
SafeParsed(v) == {"name", "message"} \subseteq StringKeys(v)

\* parseAnyError of the inner catch
parseAnyError(error) ==
    IF error \in ErrorInstances
    THEN Normalized(error)
    ELSE IF SafeParsed(error) THEN error ELSE "UnknownError"

\* the keys of the error object a SEND_WORKFLOW_ERROR was sent with
ReportKeys(e) ==
    IF e \in {Normalized(v) : v \in ErrorInstances}
    THEN {"name", "message", "stackTrace"}
    ELSE IF e \in {"UnknownError", "Event validation error"}
         THEN {"name", "message"}
         ELSE OwnKeys(e)

\* (mutant) the outer catch normalises what it caught
AfterStartNormalizing(run, o) ==
    IF o = "ok"
    THEN [run EXCEPT !.st = "running", !.invoked = TRUE, !.startAcked = TRUE]
    ELSE [run EXCEPT !.st = "outerError", !.nError = @ + 1, !.failed = @ \cup {"START"},
                     !.error = parseAnyError(o)]

\* (mutant) the user function is invoked whether or not START_WORKFLOW_RUN went through
AfterStartInvokesAnyway(run, o) ==
    [run EXCEPT !.st = "running", !.invoked = TRUE, !.startAcked = (o = "ok")]

\* continuation of serverRPC.send("START_WORKFLOW_RUN").then(...): a failure goes to
\* the outer catch, which sends what it caught as error
AfterStart(run, o) ==
    IF o = "ok"
    THEN [run EXCEPT !.st = "running", !.invoked = TRUE, !.startAcked = TRUE]
    ELSE [run EXCEPT !.st = "outerError", !.nError = @ + 1, !.failed = @ \cup {"START"},
                     !.error = o]

\* continuation of serverRPC.send("COMPLETE_WORKFLOW_RUN") inside run().then(...).catch(...)
AfterComplete(run, o) ==
    IF o = "ok"
    THEN [run EXCEPT !.st = "completed"]
    ELSE [run EXCEPT !.st = "innerError", !.nError = @ + 1, !.failed = @ \cup {"COMPLETE"},
                     !.error = parseAnyError(o)]

\* continuation of the inner catch's serverRPC.send("SEND_WORKFLOW_ERROR")
AfterInnerError(run, o) ==
    IF o = "ok"
    THEN [run EXCEPT !.st = "errored"]
    ELSE [run EXCEPT !.st = "outerError", !.nError = @ + 1, !.failed = @ \cup {"ERROR"},
                     !.error = o]

\* continuation of the outer catch's serverRPC.send("SEND_WORKFLOW_ERROR")
AfterOuterError(run, o) ==
    IF o = "ok"
    THEN [run EXCEPT !.st = "errored"]
    ELSE [run EXCEPT !.st = "errored", !.failed = @ \cup {"ERROR"}, !.unhandled = TRUE]

\* (mutant) the bundle's handles are built once, for the first run
BundleOfFirstRun(r) ==
    [id |-> RunName(1), workflowId |-> "workflow", appOrigin |-> "origin",
     performRequest |-> RunName(1), sendEvent |-> RunName(1), fetch |-> RunName(1)]

\* the bundle the handler of run r hands to triggerRunLocalStorage.run: id is data.id,
\* and performRequest, sendEvent and fetch are closures that send with runId data.id
Bundle(r) ==
    [id |-> r, workflowId |-> "workflow", appOrigin |-> "origin",
     performRequest |-> r, sendEvent |-> r, fetch |-> r]

\* triggerRunLocalStorage.run(bundle, fn): fn runs as a task linked to bundle
EnterFrame(bundle) == <<bundle>>

\* (mutant) the handler starts the run without looking at the result of safeParse
TriggerWorkflowUnvalidated(r, valid) ==
    /\ runs[r].st = "idle"
    /\ registerResponse # 0
    /\ \E rpc \in Receiving :
        /\ runs' = [runs EXCEPT ![r] = [@ EXCEPT !.st = "starting", !.rpc = rpc,
                                                 !.nStart = @ + 1,
                                                 !.frames = EnterFrame(Bundle(r)),
                                                 !.handler = "true"]]
        /\ ack' = [ret |-> "true", found |-> TRUE, settled |-> FALSE]
        /\ conns' = WriteWorkflowRPC(conns, rpc)
    /\ UNCHANGED <<calls, callbacks>>
    /\ UNCHANGED clientVars

\* (mutant) the handler awaits the promise chain of the run before it returns
TriggerWorkflowAwaitingRun(r, valid) ==
    /\ runs[r].st = "idle"
    /\ registerResponse # 0
    /\ \A q \in RunIds : runs[q].valid => runs[q].st \in {"completed", "errored"}
    /\ \E rpc \in Receiving :
        /\ IF valid
           THEN /\ runs' = [runs EXCEPT ![r] = [@ EXCEPT !.st = "starting", !.rpc = rpc,
                                                       !.valid = TRUE, !.nStart = @ + 1,
                                                       !.frames = EnterFrame(Bundle(r))]]
                /\ ack' = [ret |-> "pending", found |-> TRUE, settled |-> FALSE]
           ELSE /\ runs' = [runs EXCEPT ![r] = [@ EXCEPT !.st = "validationError", !.rpc = rpc,
                                                       !.nError = @ + 1,
                                                       !.error = "Event validation error"]]
                /\ ack' = [ret |-> "pending", found |-> TRUE, settled |-> FALSE]
        /\ conns' = WriteWorkflowRPC(conns, rpc)
    /\ UNCHANGED <<calls, callbacks>>
    /\ UNCHANGED clientVars

\* TRIGGER_WORKFLOW arrives for run r; its input parses against the schema or not
TriggerWorkflow(r, valid) ==
    /\ runs[r].st = "idle"
    /\ registerResponse # 0
    /\ \E rpc \in Receiving :
        /\ IF valid
           THEN /\ runs' = [runs EXCEPT ![r] = [@ EXCEPT !.st = "starting", !.rpc = rpc,
                                                       !.valid = TRUE, !.nStart = @ + 1,
                                                       !.frames = EnterFrame(Bundle(r)),
                                                       !.handler = "true"]]
                /\ ack' = [ret |-> "true", found |-> TRUE, settled |-> FALSE]
           ELSE /\ runs' = [runs EXCEPT ![r] = [@ EXCEPT !.st = "validationError", !.rpc = rpc,
                                                       !.nError = @ + 1,
                                                       !.error = "Event validation error"]]
                /\ ack' = [ret |-> "pending", found |-> TRUE, settled |-> FALSE]
        /\ conns' = WriteWorkflowRPC(conns, rpc)
    /\ UNCHANGED <<calls, callbacks>>
    /\ UNCHANGED clientVars

\* the send of the validation error settles: the handler returns true or throws
ValidationErrorSent(r, o) ==
    /\ runs[r].st = "validationError"
    /\ o \in Replies(runs[r].rpc)
    /\ runs' = [runs EXCEPT ![r] = [@ EXCEPT !.st = "errored",
                                         !.failed = IF o = "ok" THEN @ ELSE @ \cup {"ERROR"},
                                         !.handler = IF o = "ok" THEN "true" ELSE "throw"]]
    /\ ack' = [ret |-> IF o = "ok" THEN "true" ELSE "throw", found |-> TRUE, settled |-> FALSE]
    /\ UNCHANGED <<calls, callbacks, connVars>>

\* a send of the promise chain settles and the next link of the chain runs
ChainSendSettled(r, o) ==
    /\ runs[r].st \in {"starting", "completing", "innerError", "outerError"}
    /\ o \in Replies(runs[r].rpc)
    /\ LET next == CASE runs[r].st = "starting" -> AfterStart(runs[r], o)
                     [] runs[r].st = "completing" -> AfterComplete(runs[r], o)
                     [] runs[r].st = "innerError" -> AfterInnerError(runs[r], o)
                     [] runs[r].st = "outerError" -> AfterOuterError(runs[r], o)
       IN /\ runs' = [runs EXCEPT ![r] = next]
          /\ conns' = IF next.nError > runs[r].nError
                      THEN WriteWorkflowRPC(conns, runs[r].rpc)
                      ELSE conns
    /\ UNCHANGED <<calls, callbacks, ack>>
    /\ UNCHANGED clientVars

\* the user's run function resolves: .then sends COMPLETE_WORKFLOW_RUN
UserReturn(r) ==
    /\ runs[r].st = "running"
    /\ runs' = [runs EXCEPT ![r] = [@ EXCEPT !.st = "completing", !.outcome = "resolved",
                                                !.nComplete = @ + 1]]
    /\ conns' = WriteWorkflowRPC(conns, runs[r].rpc)
    /\ UNCHANGED <<calls, callbacks, ack>>
    /\ UNCHANGED clientVars

\* (mutant) the rejection handler reports the run as complete
UserThrowSendsComplete(r) ==
    /\ runs[r].st = "running"
    /\ runs' = [runs EXCEPT ![r] = [@ EXCEPT !.st = "completing", !.outcome = "threw",
                                                !.nComplete = @ + 1]]
    /\ conns' = WriteWorkflowRPC(conns, runs[r].rpc)
    /\ UNCHANGED <<calls, callbacks, ack>>
    /\ UNCHANGED clientVars

\* the user's run function rejects with v: the inner .catch sends SEND_WORKFLOW_ERROR
\* with parseAnyError(v)
UserThrows(r, v) ==
    /\ runs[r].st = "running"
    /\ runs' = [runs EXCEPT ![r] = [@ EXCEPT !.st = "innerError", !.outcome = "threw",
                                                !.nError = @ + 1, !.thrown = v,
                                                !.error = parseAnyError(v)]]
    /\ conns' = WriteWorkflowRPC(conns, runs[r].rpc)
    /\ UNCHANGED <<calls, callbacks, ack>>
    /\ UNCHANGED clientVars

\* the user's run function rejects with an Error
UserThrow(r) == UserThrows(r, "Error")

----------------------------------------------------------------------------
(* Values that cross the wire or come from user code *)

\* JavaScript values: undefined, two numbers, an object {v: 42} and the same object
\* with one more key
JsValues == {"undefined", "0", "42", "obj", "objExtra"}

\* the truthiness test of `x ? a : b`
Truthy(v) == v \notin {"undefined", "0"}

\* JSON.stringify(v): the JSON text of v, and undefined for undefined
JSONStringify(v) == IF v = "undefined" THEN "undefined" ELSE "json(" \o v \o ")"

\* options.responseSchema / options.response.schema: none, z.number(), z.object({v})
Schemas == {"none", "number", "object"}

\* schema.parse(v) succeeds
Conforms(schema, v) ==
    CASE schema = "number" -> v \in {"0", "42"}
      [] schema = "object" -> v \in {"obj", "objExtra"}
      [] OTHER -> TRUE

\* the value schema.parse(v) returns when it succeeds: z.object strips unknown keys,
\* z.any() and z.number() return their input
Parse(schema, v) == IF schema = "object" THEN "obj" ELSE v

\* what user code hands to a context operation besides its key: the value its callback
\* returns (runOnce, runOnceLocalOnly) and the response schema (fetch, performRequest)
NoOptions == [cbRet |-> "undefined", schema |-> "none"]

\* the data of a RESOLVE_* / REJECT_* that the client reads
NoData == [hasRun |-> FALSE, output |-> "undefined", idempotencyKey |-> "idem1",
           error |-> "error1"]

----------------------------------------------------------------------------
(* Journaled context operations *)

\* the runOnce.type field of the INITIALIZE_RUN_ONCE an operation sends
RunOnceType(op) ==
    CASE op = "runOnce" -> "REMOTE"
      [] op = "runOnceLocalOnly" -> "LOCAL_ONLY"
      [] OTHER -> "none"

\* a context call right after `new Promise(...)` and serverRPC.send(intent); `on` is the
\* channel that acknowledged its intent and msg the message that settled its promise,
\* with the channel that message came in on; data is what its promise settled with,
\* arg what its callback was called with, sent the output of its COMPLETE_RUN_ONCE,
\* ret the value it returned and thrown the error it threw; after holds the calls of
\* its run that had returned or thrown when it was made
NewCall(r, op, key) ==
    [run |-> r, op |-> op, key |-> key, type |-> RunOnceType(op),
     st |-> "sending", p |-> "pending",
     hasRun |-> FALSE, nrpc |-> 1, cb |-> 0, by |-> "none", on |-> 0, msg |-> <<>>,
     options |-> NoOptions, data |-> NoData, arg |-> "none", sent |-> "none",
     ret |-> "none", thrown |-> "none", after |-> {}]

\* (mutant) the pair is not in its table when the intent goes out
RegisterLater(cbs, op, r, key, id) == cbs

\* Map.set(messageKey(data.id, key), {resolve, reject}): one entry per key, the last set wins
Register(cbs, op, r, key, id) ==
    [cbs EXCEPT ![OpTable(op)][messageKey(r, key)] = id]

\* the output field of COMPLETE_RUN_ONCE for a callback result
RunOnceOutput(callbackResult) ==
    IF Truthy(callbackResult) THEN JSONStringify(callbackResult) ELSE "undefined"

\* (mutant) runOnce runs its callback whatever the server reports
AfterRunOnceAlways(c, hasRun) ==
    [c EXCEPT !.st = "completeSending", !.cb = @ + 1, !.nrpc = @ + 1,
              !.arg = c.data.idempotencyKey, !.sent = RunOnceOutput(c.options.cbRet)]

\* runOnce after `await result`
AfterRunOnce(c, hasRun) ==
    IF hasRun
    THEN [c EXCEPT !.st = "resolved", !.hasRun = TRUE, !.by = "message",
                   !.ret = c.data.output]
    ELSE [c EXCEPT !.st = "completeSending", !.cb = @ + 1, !.nrpc = @ + 1,
                   !.arg = c.data.idempotencyKey, !.sent = RunOnceOutput(c.options.cbRet)]

\* (mutant) runOnceLocalOnly goes on as runOnce does
AfterRunOnceLocalOnlyAsRemote(c, hasRun) == AfterRunOnce(c, hasRun)

\* runOnceLocalOnly after `await result`: `return callback(idempotencyKey)`
AfterRunOnceLocalOnly(c, hasRun) ==
    [c EXCEPT !.st = "resolved", !.hasRun = hasRun, !.cb = @ + 1, !.by = "message",
              !.arg = c.data.idempotencyKey, !.ret = c.options.cbRet]

\* a value returned through an optional schema: parse throws when it does not conform
Parsed(c, schema, v) ==
    IF Conforms(schema, v)
    THEN [c EXCEPT !.st = "resolved", !.by = "message", !.ret = Parse(schema, v)]
    ELSE [c EXCEPT !.st = "rejected", !.by = "message", !.thrown = "ZodError"]

\* fetch after `await result`: the body of the object it returns
AfterFetch(c) ==
    IF Truthy(c.data.output)
    THEN Parsed(c, c.options.schema, c.data.output)
    ELSE [c EXCEPT !.st = "resolved", !.by = "message", !.ret = "undefined"]

\* performRequest after `await result`
AfterPerformRequest(c) ==
    IF c.options.schema = "none"
    THEN [c EXCEPT !.st = "resolved", !.by = "message", !.ret = c.data.output]
    ELSE Parsed(c, c.options.schema, c.data.output)

\* (mutant) a rejected promise resumes the call as if it had resolved
AfterResultSwallowing(c, p, hasRun) ==
    [c EXCEPT !.st = "resolved", !.p = p, !.by = "message", !.ret = "undefined"]

\* the code after `await result`: the promise of call c has settled as p
AfterResult(c, p, hasRun) ==
    IF p = "rejected"
    THEN [c EXCEPT !.st = "rejected", !.p = p, !.by = "message", !.thrown = c.data.error]
    ELSE CASE c.op = "runOnce" ->
                AfterRunOnce([c EXCEPT !.p = p], hasRun)
           [] c.op = "runOnceLocalOnly" ->
                AfterRunOnceLocalOnly([c EXCEPT !.p = p], hasRun)
           [] c.op = "fetch" ->
                AfterFetch([c EXCEPT !.p = p])
           [] c.op = "performRequest" ->
                AfterPerformRequest([c EXCEPT !.p = p])
           [] c.op = "kvGet" ->
                [c EXCEPT !.st = "resolved", !.p = p, !.by = "message",
                          !.ret = c.data.output]
           [] OTHER ->
                [c EXCEPT !.st = "resolved", !.p = p, !.by = "message",
                          !.ret = "undefined"]

\* (mutant) the call returns once its intent is acknowledged, without `await result`
AfterIntentNoAwait(c, o) ==
    IF o # "ok"
    THEN [c EXCEPT !.st = "rejected", !.by = "send", !.thrown = o]
    ELSE [c EXCEPT !.st = "resolved", !.by = "message"]

\* the code after `await serverRPC.send(intent)`: a failed send rejects the call,
\* an acknowledged one goes on to `await result`
AfterIntent(c, o) ==
    IF o # "ok"
    THEN [c EXCEPT !.st = "rejected", !.by = "send", !.thrown = o]
    ELSE IF c.p = "pending"
         THEN [c EXCEPT !.st = "awaiting"]
         ELSE AfterResult(c, c.p, c.hasRun)

\* the code after `await serverRPC.send("COMPLETE_RUN_ONCE")` in runOnce
AfterCompleteRunOnce(c, o) ==
    IF o = "ok"
    THEN [c EXCEPT !.st = "resolved", !.by = "message", !.ret = c.options.cbRet]
    ELSE [c EXCEPT !.st = "rejected", !.by = "send", !.thrown = o]

\* the calls of run r that have returned or thrown
Returned(r) == {i \in 1..Len(calls) : calls[i].run = r /\ calls[i].st \in {"resolved", "rejected"}}

\* (mutant) the intent of a call goes out ahead of the frames written before it
CallUpToJumpingQueue(n, r, op, key, options) ==
    /\ runs[r].st = "running"
    /\ Len(calls) < n
    /\ calls' = Append(calls, [NewCall(r, op, key) EXCEPT !.options = options,
                                                          !.after = Returned(r)])
    /\ callbacks' = Register(callbacks, op, r, key, Len(calls) + 1)
    /\ conns' = IF Writable(runs[r].rpc)
                THEN [WriteWorkflowRPC(conns, runs[r].rpc)
                         EXCEPT ![rpcConn[runs[r].rpc]].intents = <<Len(calls) + 1>> \o @]
                ELSE conns
    /\ UNCHANGED <<runs, ack>>
    /\ UNCHANGED clientVars

\* code running under run r calls a journaled operation with the given options, when
\* fewer than n calls were made: the (resolve, reject) pair is stored by the executor
\* of `new Promise`, and serverRPC.send writes the intent before the first await
CallUpTo(n, r, op, key, options) ==
    /\ runs[r].st = "running"
    /\ Len(calls) < n
    /\ calls' = Append(calls, [NewCall(r, op, key) EXCEPT !.options = options,
                                                          !.after = Returned(r)])
    /\ callbacks' = Register(callbacks, op, r, key, Len(calls) + 1)
    /\ conns' = WriteIntent(conns, runs[r].rpc, Len(calls) + 1)
    /\ UNCHANGED <<runs, ack>>
    /\ UNCHANGED clientVars

\* code running under run r calls a journaled operation with the given options
Call(r, op, key, options) == CallUpTo(MaxCalls, r, op, key, options)

\* code running under run r calls a journaled operation of its context, with a
\* callback that returns nothing and no schema
ContextCall(r, op, key) == Call(r, op, key, NoOptions)

\* the send of a call's intent, or of its COMPLETE_RUN_ONCE, settles
CallSendSettled(i, o) ==
    /\ i \in 1..Len(calls)
    /\ calls[i].st \in {"sending", "completeSending"}
    /\ o \in Replies(runs[calls[i].run].rpc)
    /\ LET next == IF calls[i].st = "sending"
                   THEN [AfterIntent(calls[i], o)
                            EXCEPT !.on = IF o = "ok" THEN rpcConn[runs[calls[i].run].rpc] ELSE @]
                   ELSE AfterCompleteRunOnce(calls[i], o)
       IN /\ calls' = [calls EXCEPT ![i] = next]
          /\ conns' = IF next.nrpc > calls[i].nrpc
                      THEN WriteWorkflowRPC(conns, runs[calls[i].run].rpc)
                      ELSE conns
    /\ UNCHANGED <<runs, callbacks, ack>>
    /\ UNCHANGED clientVars

----------------------------------------------------------------------------
(* RESOLVE_* and REJECT_* handlers *)

\* (mutant) the lookup matches the user key alone, whatever the run id
LookupAnyRun(cbs, m, r, key) ==
    LET hits == {cbs[MethodTable(m)][messageKey(q, key)] : q \in RunIds} \ {0}
    IN IF hits = {} THEN 0 ELSE CHOOSE id \in hits : TRUE

\* Map.get(messageKey(data.meta.runId, data.key)): 0 when there is no entry
Lookup(cbs, m, r, key) == cbs[MethodTable(m)][messageKey(r, key)]

\* resolve(...) or reject(...) on the promise of call c: a settled promise stays as it is,
\* and a call already at `await result` goes on
Settle(c, m, hasRun) ==
    LET p == IF m \in RejectMethods THEN "rejected" ELSE "resolved"
    IN IF c.p # "pending"
       THEN c
       ELSE IF c.st = "awaiting"
            THEN AfterResult(c, p, hasRun)
            ELSE [c EXCEPT !.p = p, !.hasRun = hasRun]

\* the outputs a message can carry that the client reads: hasRun of RESOLVE_RUN_ONCE
Outputs(m) == IF m = "RESOLVE_RUN_ONCE" THEN BOOLEAN ELSE {FALSE}

\* (mutant) a handler tells whether it found callbacks
HandlerResultByFound(found) == IF found THEN "true" ELSE "false"

\* what a RESOLVE_* / REJECT_* handler returns
HandlerResult(found) == "true"

\* (mutant) resolve(...) and reject(...) settle a promise again that has settled
HandleMessageSettlingAgain(m, r, key, data) ==
    /\ \E rpc \in Receiving :
       LET id == Lookup(callbacks, m, r, key)
           p == IF m \in RejectMethods THEN "rejected" ELSE "resolved"
       IN /\ IF id = 0
             THEN calls' = calls /\ conns' = conns
             ELSE LET next == IF calls[id].st = "awaiting"
                                  THEN [AfterResult([calls[id] EXCEPT !.data = data], p, data.hasRun)
                                            EXCEPT !.msg = <<m, r, key, rpcConn[rpc]>>]
                                  ELSE [calls[id] EXCEPT !.p = p, !.hasRun = data.hasRun,
                                                         !.data = data,
                                                         !.msg = <<m, r, key, rpcConn[rpc]>>]
                  IN /\ calls' = [calls EXCEPT ![id] = next]
                     /\ conns' = IF next.nrpc > calls[id].nrpc
                                 THEN WriteWorkflowRPC(conns, runs[calls[id].run].rpc)
                                 ELSE conns
          /\ ack' = [ret |-> HandlerResult(id # 0), found |-> id # 0,
                      settled |-> (id # 0 /\ calls[id].p # "pending")]
    /\ UNCHANGED <<runs, callbacks>>
    /\ UNCHANGED clientVars

\* the server sends RESOLVE_* / REJECT_* m for (r, key) with data
HandleMessage(m, r, key, data) ==
    /\ \E rpc \in Receiving :
       LET id == Lookup(callbacks, m, r, key)
       IN /\ IF id = 0
             THEN calls' = calls /\ conns' = conns
             ELSE LET next == IF calls[id].p = "pending"
                                  THEN [Settle([calls[id] EXCEPT !.data = data], m, data.hasRun)
                                            EXCEPT !.msg = <<m, r, key, rpcConn[rpc]>>]
                                  ELSE calls[id]
                  IN /\ calls' = [calls EXCEPT ![id] = next]
                     /\ conns' = IF next.nrpc > calls[id].nrpc
                                 THEN WriteWorkflowRPC(conns, runs[calls[id].run].rpc)
                                 ELSE conns
          /\ ack' = [ret |-> HandlerResult(id # 0), found |-> id # 0,
                      settled |-> (id # 0 /\ calls[id].p # "pending")]
    /\ UNCHANGED <<runs, callbacks>>
    /\ UNCHANGED clientVars

\* the server sends RESOLVE_* / REJECT_* m for (r, key); of its data only hasRun, read
\* by RESOLVE_RUN_ONCE, varies
HandleHostMethod(m, r, key, hasRun) ==
    HandleMessage(m, r, key, [NoData EXCEPT !.hasRun = hasRun])

----------------------------------------------------------------------------
(* The run executor on a stable connection: TRIGGER_WORKFLOW and its chain *)

NextRun ==
    \/ \E r \in RunIds, valid \in BOOLEAN : TriggerWorkflow(r, valid)
    \/ \E r \in RunIds, o \in SendOutcomes : ValidationErrorSent(r, o)
    \/ \E r \in RunIds, o \in SendOutcomes : ChainSendSettled(r, o)
    \/ \E r \in RunIds : UserReturn(r)
    \/ \E r \in RunIds : UserThrow(r)

SpecRun == InitListening /\ [][NextRun]_vars

----------------------------------------------------------------------------
(* Journaled calls of running user functions on a stable connection *)

\* a run whose START_WORKFLOW_RUN was acknowledged and whose user function is executing
Running == [NoRun EXCEPT !.st = "running", !.rpc = 1, !.valid = TRUE, !.invoked = TRUE,
                         !.nStart = 1, !.startAcked = TRUE, !.handler = "true"]

\* the runs that are executing when the calls are observed: two concurrent runs
Executing == {RunName(1), RunName(2)}

\* the listening client with the runs of E executing and no call made yet
RunningOn(E) ==
    /\ Listening
    /\ runs = [r \in RunIds |-> IF r \in E
                                THEN [Running EXCEPT !.frames = EnterFrame(Bundle(r))]
                                ELSE NoRun]
    /\ calls = <<>>
    /\ callbacks = [t \in Tables |-> [ck \in CallKeys |-> 0]]
    /\ ack = NoAck

InitRunning == RunningOn(Executing)

NextCalls ==
    \/ \E r \in RunIds, op \in Ops, key \in Keys : ContextCall(r, op, key)
    \/ \E i \in 1..MaxCalls, o \in SendOutcomes : CallSendSettled(i, o)
    \/ \E m \in HostMethods, r \in RunIds, key \in Keys :
          \E hasRun \in Outputs(m) : HandleHostMethod(m, r, key, hasRun)

SpecCalls == InitRunning /\ [][NextCalls]_vars

----------------------------------------------------------------------------
(* Two concurrent runs whose user functions make calls side by side, under the same *)
(* user key or not, on a stable connection                                          *)

NextPairs ==
    \/ \E r \in RunIds, op \in Ops, key \in Keys :
          CallUpTo(MaxPairCalls, r, op, key, NoOptions)
    \/ \E i \in 1..MaxPairCalls, o \in SendOutcomes : CallSendSettled(i, o)
    \/ \E m \in HostMethods, r \in RunIds, key \in Keys :
          \E hasRun \in Outputs(m) : HandleHostMethod(m, r, key, hasRun)

SpecPairs == InitRunning /\ [][NextPairs]_vars

----------------------------------------------------------------------------
(* Two concurrent runs whose calls ask for a delay, a fetch or a runOnce, with a   *)
(* server that may deliver any RESOLVE_* / REJECT_* any number of times             *)

RedeliveryOps == {"waitFor", "fetch", "runOnce"}

NextRedelivery ==
    \/ \E r \in RunIds, op \in RedeliveryOps, key \in Keys :
          CallUpTo(MaxPairCalls, r, op, key, NoOptions)
    \/ \E i \in 1..MaxPairCalls, o \in SendOutcomes : CallSendSettled(i, o)
    \/ \E m \in HostMethods, r \in RunIds, key \in Keys :
          \E hasRun \in Outputs(m) : HandleHostMethod(m, r, key, hasRun)

SpecRedelivery == InitRunning /\ [][NextRedelivery]_vars

----------------------------------------------------------------------------
(* Calls whose run ids and user keys are any strings: data.id of TRIGGER_WORKFLOW   *)
(* and the key argument of an operation are strings, and may contain ":"            *)

\* run ids and user keys, with and without the separator
AnyRunIds == {RunName(1), RunName(1) \o ":" \o KeyName(1)}
AnyKeys == {KeyName(1), KeyName(1) \o ":" \o KeyName(1)}

\* the operations called: a delay and a fetch, which have a table each
KeyedOps == {"waitFor", "fetch"}

\* the listening client with a run executing under each of these ids, no call made yet
InitKeys ==
    /\ Listening
    /\ runs = [r \in AnyRunIds |-> [Running EXCEPT !.frames = EnterFrame(Bundle(r))]]
    /\ calls = <<>>
    /\ callbacks = [t \in Tables |->
                       [ck \in {messageKey(r, k) : r \in AnyRunIds, k \in AnyKeys} |-> 0]]
    /\ ack = NoAck

NextKeys ==
    \/ \E r \in AnyRunIds, op \in KeyedOps, key \in AnyKeys :
          CallUpTo(MaxPairCalls, r, op, key, NoOptions)
    \/ \E i \in 1..MaxPairCalls, o \in SendOutcomes : CallSendSettled(i, o)
    \/ \E m \in HostMethods, r \in AnyRunIds, key \in AnyKeys :
          \E hasRun \in Outputs(m) : HandleHostMethod(m, r, key, hasRun)

SpecKeys == InitKeys /\ [][NextKeys]_vars

----------------------------------------------------------------------------
(* Running user functions across involuntary closes and reconnects: the client is  *)
(* listening with runs executing, the server drops connections, the reconnect loop *)
(* dials, and the handshake of each new connection is answered.                    *)

\* the operations the runs call across reconnects: one that the server can reject and
\* one that sends a second RPC after its result
OpsAcrossReconnect == {"fetch", "runOnce"}

NextReconnect ==
    \/ \E c \in 1..MaxConns : OnClose(c)
    \/ \E c \in 1..MaxConns : OnCloseReconnect(c)
    \/ \E i \in 1..MaxConns : LoopWake(i)
    \/ \E c \in 1..MaxConns : DialOk(c)
    \/ \E c \in 1..MaxConns, handlerFirst \in BOOLEAN : DialFail(c, handlerFirst)
    \/ \E c \in 1..MaxConns : HostProbed(c)
    \/ \E c \in 1..MaxConns, o \in HostAnswers : HostReplied(c, o)
    \/ \E r \in RunIds, op \in OpsAcrossReconnect, key \in Keys : ContextCall(r, op, key)
    \/ \E i \in 1..MaxCalls, o \in SendOutcomes : CallSendSettled(i, o)
    \/ \E m \in HostMethods, r \in RunIds, key \in Keys :
          \E hasRun \in Outputs(m) : HandleHostMethod(m, r, key, hasRun)

\* one run is executing when the server drops the connection
InitReconnect == RunningOn({RunName(1)})

SpecReconnect == InitReconnect /\ [][NextReconnect]_vars


----------------------------------------------------------------------------
(* A live run across an involuntary close, with a server that answers every request *)
(* it receives and only ever resolves: sends fail only while the channel is down,   *)
(* and the user function lets the error of a failed call propagate.                 *)

\* the error a context call threw at its `await` leaves the user function uncaught:
\* the promise of run(...) rejects and the inner catch sends SEND_WORKFLOW_ERROR
UserRethrows(i) ==
    /\ i \in 1..Len(calls)
    /\ calls[i].st = "rejected"
    /\ runs[calls[i].run].st = "running"
    /\ runs' = [runs EXCEPT ![calls[i].run] = [@ EXCEPT !.st = "innerError",
                                                         !.outcome = "threw",
                                                         !.nError = @ + 1,
                                                         !.thrown = calls[i].thrown,
                                                         !.error = parseAnyError(calls[i].thrown)]]
    /\ conns' = WriteWorkflowRPC(conns, runs[calls[i].run].rpc)
    /\ UNCHANGED <<calls, callbacks, ack>>
    /\ UNCHANGED clientVars

\* the reply a send gets from a server that answers whatever reaches it
Answered(rpc) == IF Writable(rpc) THEN "ok" ELSE "timeout"

NextLive ==
    \/ \E c \in 1..MaxConns : OnClose(c)
    \/ \E c \in 1..MaxConns : OnCloseReconnect(c)
    \/ \E i \in 1..MaxConns : LoopWake(i)
    \/ \E c \in 1..MaxConns : DialOk(c)
    \/ \E c \in 1..MaxConns : HostProbed(c)
    \/ \E c \in 1..MaxConns : HostReplied(c, "success")
    \/ \E r \in RunIds, op \in OpsAcrossReconnect, key \in Keys : ContextCall(r, op, key)
    \/ \E i \in 1..MaxCalls : CallSendSettled(i, Answered(runs[calls[i].run].rpc))
    \/ \E m \in ResolveMethods, r \in RunIds, key \in Keys :
          \E hasRun \in Outputs(m) : HandleHostMethod(m, r, key, hasRun)
    \/ \E i \in 1..MaxCalls : UserRethrows(i)
    \/ \E r \in RunIds : ChainSendSettled(r, Answered(runs[r].rpc))

SpecLive == InitReconnect /\ [][NextLive]_vars

----------------------------------------------------------------------------
(* Run-scoped ambient state: concurrent runs whose user functions spawn tasks that *)
(* read the store                                                                  *)

\* task t of run r (the user function or a descendant) starts asynchronous work: the
\* new task is linked to the store of the task that started it
SpawnTask(r, t) ==
    /\ runs[r].invoked
    /\ t \in 1..Len(runs[r].frames)
    /\ Len(runs[r].frames) < MaxTasks
    /\ runs' = [runs EXCEPT ![r].frames = Append(@, @[t])]
    /\ UNCHANGED <<conns, calls, callbacks, ack>>
    /\ UNCHANGED clientVars

\* task t of run r reads triggerRunLocalStorage.getStore()
GetStore(r, t) ==
    /\ runs[r].invoked
    /\ t \in 1..Len(runs[r].frames)
    /\ runs' = [runs EXCEPT ![r].seen = @ \cup {runs[r].frames[t]}]
    /\ UNCHANGED <<conns, calls, callbacks, ack>>
    /\ UNCHANGED clientVars

NextAmbient ==
    \/ \E r \in RunIds : TriggerWorkflow(r, TRUE)
    \/ \E r \in RunIds, o \in SendOutcomes : ChainSendSettled(r, o)
    \/ \E r \in RunIds : UserReturn(r)
    \/ \E r \in RunIds : UserThrow(r)
    \/ \E r \in RunIds, t \in 1..MaxTasks : SpawnTask(r, t)
    \/ \E r \in RunIds, t \in 1..MaxTasks : GetStore(r, t)

SpecAmbient == InitListening /\ [][NextAmbient]_vars

----------------------------------------------------------------------------
(* Values through runOnce, fetch and performRequest: one run executing on a stable *)
(* connection, user code that lets a failed call end the run                       *)

\* the operations whose results depend on what user code and the server supply
ValueOps == {"runOnce", "fetch", "performRequest"}

\* what user code can pass to an operation
OptionsOf(op) ==
    IF op = "runOnce"
    THEN {[NoOptions EXCEPT !.cbRet = v] : v \in JsValues}
    ELSE {[NoOptions EXCEPT !.schema = sch] : sch \in Schemas}

\* idempotency keys and errors the server supplies
IdempotencyKeys == {"idem1", "idem2"}
Errors == {"error1", "error2"}

\* the data the server can put in message m
DataOf(m) ==
    CASE m = "RESOLVE_RUN_ONCE" ->
            {[NoData EXCEPT !.hasRun = TRUE, !.output = v, !.idempotencyKey = k] :
                 v \in JsValues, k \in IdempotencyKeys}
            \cup {[NoData EXCEPT !.idempotencyKey = k] : k \in IdempotencyKeys}
      [] m \in RejectMethods -> {[NoData EXCEPT !.error = e] : e \in Errors}
      [] OTHER -> {[NoData EXCEPT !.output = v] : v \in JsValues}

\* the messages that settle the calls of ValueOps
ValueMethods == {"RESOLVE_RUN_ONCE", "RESOLVE_FETCH_REQUEST", "REJECT_FETCH_REQUEST",
                 "RESOLVE_REQUEST", "REJECT_REQUEST"}

NextValues ==
    \/ \E r \in RunIds, op \in ValueOps, key \in Keys :
          \E options \in OptionsOf(op) : Call(r, op, key, options)
    \/ \E i \in 1..MaxCalls, o \in SendOutcomes : CallSendSettled(i, o)
    \/ \E m \in ValueMethods, r \in RunIds, key \in Keys :
          \E data \in DataOf(m) : HandleMessage(m, r, key, data)
    \/ \E i \in 1..MaxCalls : UserRethrows(i)
    \/ \E r \in RunIds : UserReturn(r)
    \/ \E r \in RunIds, o \in SendOutcomes : ChainSendSettled(r, o)

SpecValues == InitReconnect /\ [][NextValues]_vars

----------------------------------------------------------------------------
(* runOnceLocalOnly with the callbacks user code can pass and the replies the *)
(* server can give, beside runOnce under another key                          *)

\* what user code can pass as the callback of a run-once operation
CallbacksOf(op) == {[NoOptions EXCEPT !.cbRet = v] : v \in JsValues}

NextLocalOnly ==
    \/ \E r \in RunIds, op \in {"runOnce", "runOnceLocalOnly"}, key \in Keys :
          \E options \in CallbacksOf(op) : Call(r, op, key, options)
    \/ \E i \in 1..MaxCalls, o \in SendOutcomes : CallSendSettled(i, o)
    \/ \E r \in RunIds, key \in Keys :
          \E data \in DataOf("RESOLVE_RUN_ONCE") :
              HandleMessage("RESOLVE_RUN_ONCE", r, key, data)
    \/ \E i \in 1..MaxCalls : UserRethrows(i)
    \/ \E r \in RunIds : UserReturn(r)
    \/ \E r \in RunIds, o \in SendOutcomes : ChainSendSettled(r, o)

SpecLocalOnly == InitReconnect /\ [][NextLocalOnly]_vars

----------------------------------------------------------------------------
(* User functions that throw whatever JavaScript lets them throw, on a stable *)
(* connection                                                                 *)

NextErrors ==
    \/ \E r \in RunIds : TriggerWorkflow(r, TRUE)
    \/ \E r \in RunIds, o \in SendOutcomes : ChainSendSettled(r, o)
    \/ \E r \in RunIds : UserReturn(r)
    \/ \E r \in RunIds, v \in ThrownValues : UserThrows(r, v)

SpecErrors == InitListening /\ [][NextErrors]_vars

----------------------------------------------------------------------------
(* Whole runs on a stable connection: TRIGGER_WORKFLOW, the promise chain, the calls *)
(* of the user function with the replies of the server, and user code that returns,  *)
(* throws, or lets the error of a failed call out                                    *)

NextWorkflow ==
    \/ \E r \in RunIds, valid \in BOOLEAN : TriggerWorkflow(r, valid)
    \/ \E r \in RunIds, o \in SendOutcomes : ValidationErrorSent(r, o)
    \/ \E r \in RunIds, o \in SendOutcomes : ChainSendSettled(r, o)
    \/ \E r \in RunIds : UserReturn(r)
    \/ \E r \in RunIds : UserThrow(r)
    \/ \E r \in RunIds, op \in Ops, key \in Keys : ContextCall(r, op, key)
    \/ \E i \in 1..MaxCalls, o \in SendOutcomes : CallSendSettled(i, o)
    \/ \E m \in HostMethods, r \in RunIds, key \in Keys :
          \E hasRun \in Outputs(m) : HandleHostMethod(m, r, key, hasRun)
    \/ \E i \in 1..MaxCalls : UserRethrows(i)

SpecWorkflow == InitListening /\ [][NextWorkflow]_vars

----------------------------------------------------------------------------
(* One listen() on a new client, with a server that accepts or refuses the dial,   *)
(* answers the handshake with success or an error or lets it time out, never drops *)
(* the connection and triggers runs once the client is registered                  *)

NextListen ==
    \/ \E instanceId \in InstanceIds : listens = 0 /\ Listen(instanceId)
    \/ \E c \in 1..MaxConns : DialOk(c)
    \/ \E c \in 1..MaxConns, handlerFirst \in BOOLEAN : DialFail(c, handlerFirst)
    \/ \E c \in 1..MaxConns : c <= Len(conns) /\ conns[c].st = "closing" /\ OnClose(c)
    \/ \E c \in 1..MaxConns : OnCloseReconnect(c)
    \/ \E c \in 1..MaxConns : HostProbed(c)
    \/ \E c \in 1..MaxConns, o \in HostReplies : HostReplied(c, o)
    \/ \E c \in 1..MaxConns : HostRetry(c)
    \/ \E r \in RunIds, valid \in BOOLEAN : TriggerWorkflow(r, valid)
    \/ \E r \in RunIds, o \in SendOutcomes : ValidationErrorSent(r, o)
    \/ \E r \in RunIds, o \in SendOutcomes : ChainSendSettled(r, o)
    \/ \E r \in RunIds : UserReturn(r)

SpecListen == Init /\ [][NextListen]_vars

\* the same with what the scheduling gives: the probes of #initializeHost end, the
\* timer of #send fires, and the server replies to a handshake it keeps receiving
SpecListenFair ==
    /\ SpecListen
    /\ WF_vars(\E c \in 1..MaxConns : HostProbed(c))
    /\ WF_vars(\E c \in 1..MaxConns : HostRetry(c))
    /\ SF_vars(\E c \in 1..MaxConns, o \in HostAnswers : HostReplied(c, o))

----------------------------------------------------------------------------
(* Properties of the run executor (SpecRun) *)

\* C1: for every run, COMPLETE_WORKFLOW_RUN and SEND_WORKFLOW_ERROR are never both
\* emitted with the same runId, whatever the outcome of each outbound send.
C1_NeverBothTerminal ==
    \A r \in RunIds : ~(runs[r].nComplete > 0 /\ runs[r].nError > 0)

\* the event input of run r failed validation against the trigger schema
FailedValidation(r) == runs[r].st # "idle" /\ ~runs[r].valid

C3_StartBeforeInvoke ==
    \A r \in RunIds : runs[r].invoked => (runs[r].nStart >= 1 /\ runs[r].startAcked)

\* a user function is executing
C3_Witness == \E r \in RunIds : runs[r].st = "running" /\ runs[r].invoked

----------------------------------------------------------------------------
(* Properties of the journaled calls and their handlers (SpecCalls) *)

CallIds == 1..Len(calls)

\* call i has returned to its caller or thrown
Completed(i) == calls[i].st \in {"resolved", "rejected"}

RegisteredUnder(t, ck) ==
    {i \in CallIds : OpTable(calls[i].op) = t /\ messageKey(calls[i].run, calls[i].key) = ck}

\* C5: a RESOLVE_* / REJECT_* whose (runId, key) has no registered callback is
\* acknowledged with true, fulfils no suspended call and leaves every table unchanged:
\* a handler that found nothing returned true, every settled call was settled by a
\* message for its own table, run id and key, and every table entry is the last
\* registration made under its key (none where no call registered).
C5_UnknownKeySilent ==
    /\ (ack.ret # "none" /\ ~ack.found) => ack.ret = "true"
    /\ \A i \in CallIds :
          calls[i].p # "pending" =>
              /\ MethodTable(calls[i].msg[1]) = OpTable(calls[i].op)
              /\ calls[i].msg[2] = calls[i].run
              /\ calls[i].msg[3] = calls[i].key
    /\ \A t \in Tables, ck \in CallKeys :
          callbacks[t][ck] = IF RegisteredUnder(t, ck) = {} THEN 0
                             ELSE CHOOSE i \in RegisteredUnder(t, ck) :
                                      \A j \in RegisteredUnder(t, ck) : j <= i

\* an unknown key was acknowledged while a call is suspended
C5_Witness ==
    /\ ack = [ret |-> "true", found |-> FALSE, settled |-> FALSE]
    /\ \E i \in CallIds : calls[i].st = "awaiting" /\ calls[i].p = "pending"

----------------------------------------------------------------------------
(* Properties of the connection lifecycle (Spec) *)

ConnIds == 1..Len(conns)

\* C6: after close() the client makes no further dial attempt (until listen() is called
\* again), also while a reconnect loop started by an earlier involuntary close runs.
C6_NoDialAfterClose ==
    [][(closed /\ closed') => Len(conns') = Len(conns)]_vars

\* C7: an involuntary close of a connection, with no close() since the listen() that
\* made it, is never taken for a close by the user: its handler goes on to reconnect.
C7_InvoluntaryCloseReconnects ==
    [][\A c \in ConnIds :
          (~closed /\ conns[c].st = "open" /\ conns'[c].st = "closed")
              => conns'[c].onClose = "import"]_vars

\* C8: every connection a reconnect loop dials carries the session id of the connection
\* that the listen() it descends from dialled.
C8_SameSessionId ==
    \A c \in ConnIds :
        conns[c].via = "reconnect" => conns[c].sid = conns[conns[c].root].sid

\* a reconnect is open under the id of its listen(), beside a listen() with another id
C8_Witness ==
    \E c, d \in ConnIds :
        /\ conns[c].via = "reconnect" /\ conns[c].st = "open"
        /\ conns[d].via = "listen" /\ conns[d].sid # conns[c].sid

----------------------------------------------------------------------------
(* Properties of runs across reconnects (SpecReconnect) *)

\* C9: a channel opened by a reconnect carries no workflow RPC of a live run before
\* INITIALIZE_HOST_V2 has been written to it.
C9_HandshakeBeforeWorkflowRPC ==
    \A c \in ConnIds : conns[c].via = "reconnect" => ~conns[c].early

\* what the connection code works on: the client's connection fields and each
\* connection's socket, onClose handler and handshake
ConnState ==
    <<clientVars, [c \in ConnIds |-> [conns[c] EXCEPT !.early = FALSE, !.intents = <<>>]]>>

\* the table entry a call registered under
Entry(cbs, i) == cbs[OpTable(calls[i].op)][messageKey(calls[i].run, calls[i].key)]

\* C10: no step of the connection code (a close event, the reconnect loop, a dial that
\* settles, the handshake) changes an entry of a pending-call table or a suspended
\* call, and the key of every call made keeps an entry: a call suspended before an
\* involuntary close is still suspended, and registered, after the reconnect.
C10_ReconnectKeepsCallbacks ==
    /\ [](\A i \in CallIds : Entry(callbacks, i) # 0)
    /\ [][ConnState' # ConnState => (callbacks' = callbacks /\ calls' = calls)]_vars

\* a call whose intent went out on a connection the server then dropped was resolved
\* by a message delivered on a connection the reconnect loop dialled
C10_Witness ==
    \E i \in CallIds :
        /\ calls[i].st = "resolved" /\ calls[i].by = "message"
        /\ conns[calls[i].on].closedBy = "peer"
        /\ calls[i].msg[4] # calls[i].on
        /\ conns[calls[i].msg[4]].via = "reconnect"

----------------------------------------------------------------------------
(* Properties of a live run across an involuntary close (SpecLive) *)

\* C11: with a server that answers and only resolves, an involuntary close while a run
\* is live makes no call of the run fail and no SEND_WORKFLOW_ERROR go out: the calls
\* in flight stay suspended until they are resolved.
C11_NoErrorOnDisconnect ==
    /\ \A r \in RunIds : runs[r].nError = 0
    /\ \A i \in CallIds : calls[i].st # "rejected"

----------------------------------------------------------------------------
(* Properties of the run-scoped ambient state (SpecAmbient) *)

----------------------------------------------------------------------------
(* Properties of the values of journaled calls (SpecValues) *)

\* the runOnce calls whose promise resolved with hasRun as given
RunOnceResolved(hasRun) ==
    {i \in CallIds : /\ calls[i].op = "runOnce" /\ calls[i].p = "resolved"
                     /\ calls[i].data.hasRun = hasRun}

\* C13: a runOnce whose RESOLVE_RUN_ONCE reports hasRun = true never invokes its
\* callback, sends no COMPLETE_RUN_ONCE, and when it returns it returns the stored output.
C13_HasRunSkipsCallback ==
    \A i \in RunOnceResolved(TRUE) :
        /\ calls[i].cb = 0 /\ calls[i].arg = "none"
        /\ calls[i].nrpc = 1 /\ calls[i].sent = "none"
        /\ calls[i].st # "completeSending"
        /\ calls[i].st = "resolved" => calls[i].ret = calls[i].data.output

\* a runOnce with a callback that returns a value returned the stored object instead
C13_Witness ==
    \E i \in RunOnceResolved(TRUE) :
        /\ calls[i].st = "resolved" /\ calls[i].ret = "obj"
        /\ calls[i].options.cbRet = "42"

\* C14: a runOnce whose RESOLVE_RUN_ONCE reports hasRun = false and that went on after
\* its intent invoked its callback once with the server's idempotencyKey, sent the
\* serialized return value of the callback as output of COMPLETE_RUN_ONCE, and when
\* it returns it returns that value, whatever the value is.
C14_CallbackResultEchoed ==
    \A i \in RunOnceResolved(FALSE) :
        calls[i].st \in {"completeSending", "resolved"} =>
            /\ calls[i].cb = 1 /\ calls[i].arg = calls[i].data.idempotencyKey
            /\ calls[i].sent = JSONStringify(calls[i].options.cbRet)
            /\ calls[i].st = "resolved" => calls[i].ret = calls[i].options.cbRet

\* C15: a fetch that came back from `await result` on a resolved promise returns the
\* body as received when no responseSchema was given, returns the parsed body when the
\* body conforms to the schema, and rejects when it does not.
C15_FetchBodyThroughSchema ==
    \A i \in CallIds :
        (calls[i].op = "fetch" /\ calls[i].p = "resolved" /\ Completed(i)
                               /\ calls[i].by = "message") =>
            IF Conforms(calls[i].options.schema, calls[i].data.output)
            THEN /\ calls[i].st = "resolved"
                 /\ calls[i].ret = Parse(calls[i].options.schema, calls[i].data.output)
            ELSE calls[i].st = "rejected"

----------------------------------------------------------------------------
(* Properties of event validation (SpecRun) *)

\* what a failed validation sends and leaves out: one SEND_WORKFLOW_ERROR named
\* "Event validation error", no START_WORKFLOW_RUN, no COMPLETE_WORKFLOW_RUN, no
\* invocation of the user function
OnlyValidationError(r) ==
    /\ runs[r].nError = 1 /\ runs[r].error = "Event validation error"
    /\ runs[r].nStart = 0 /\ runs[r].nComplete = 0
    /\ ~runs[r].invoked /\ runs[r].outcome = "none"

\* C16 (as stated): a TRIGGER_WORKFLOW whose input fails validation emits exactly one
\* RPC, the SEND_WORKFLOW_ERROR named "Event validation error", never starts or
\* invokes the run, and its handler returns true.
C16_Original ==
    \A r \in RunIds :
        FailedValidation(r) =>
            /\ OnlyValidationError(r)
            /\ runs[r].st = "errored" => runs[r].handler = "true"

\* C16 (amended): the same, but the handler returns true only when the send of that
\* SEND_WORKFLOW_ERROR was acknowledged; when the send fails the handler throws.
C16_Amended ==
    \A r \in RunIds :
        FailedValidation(r) =>
            /\ OnlyValidationError(r)
            /\ runs[r].st = "errored" =>
                   runs[r].handler = IF "ERROR" \in runs[r].failed THEN "throw" ELSE "true"
            /\ runs[r].st # "errored" => runs[r].handler = "none"

\* one invalid event was reported and acknowledged, the report of another failed
C16_Witness ==
    \E r, q \in RunIds :
        /\ FailedValidation(r) /\ runs[r].st = "errored" /\ runs[r].handler = "true"
        /\ FailedValidation(q) /\ runs[q].st = "errored" /\ runs[q].handler = "throw"

----------------------------------------------------------------------------
(* Properties of rejected calls (SpecValues) *)

\* the fetch and performRequest calls that came back from `await result` on a promise
\* a REJECT_FETCH_REQUEST / REJECT_REQUEST rejected
RejectedCalls ==
    {i \in CallIds : /\ calls[i].op \in {"fetch", "performRequest"}
                     /\ calls[i].p = "rejected" /\ calls[i].by = "message"}

\* C17: a performRequest or fetch call suspended on its result when REJECT_REQUEST /
\* REJECT_FETCH_REQUEST arrives for its (runId, key) throws the error the server
\* supplied, it cannot stay suspended once it is rejected and its intent acknowledged,
\* and a run whose user function lets the error out ends with SEND_WORKFLOW_ERROR
\* carrying that error, which parseAnyError leaves as it is, and with no
\* COMPLETE_WORKFLOW_RUN.
C17_RejectThrowsAtSuspension ==
    /\ \A i \in CallIds :
          (calls[i].op \in {"fetch", "performRequest"} /\ calls[i].p = "rejected") =>
              /\ calls[i].msg[1] \in RejectMethods
              /\ calls[i].st \in {"sending", "rejected"}
    /\ \A i \in RejectedCalls :
          /\ calls[i].st = "rejected" /\ calls[i].thrown = calls[i].data.error
          /\ parseAnyError(calls[i].thrown) = calls[i].data.error
          /\ calls[i].ret = "none"
    /\ \A r \in RunIds :
          runs[r].outcome = "threw" =>
              /\ runs[r].nError >= 1 /\ runs[r].nComplete = 0
              /\ \E i \in CallIds : calls[i].run = r /\ calls[i].st = "rejected"
                                    /\ (runs[r].nError = 1 =>
                                           runs[r].error = parseAnyError(calls[i].thrown))

\* a rejected fetch threw the server's second error and the run reported it
C17_Witness ==
    \E i \in RejectedCalls :
        /\ calls[i].op = "fetch" /\ calls[i].thrown = "error2"
        /\ runs[calls[i].run].st = "errored" /\ runs[calls[i].run].error = "error2"
        /\ runs[calls[i].run].nComplete = 0

----------------------------------------------------------------------------
(* Properties of a failing listen() (SpecListen) *)

\* listen() has returned after its catch ran
Aborted == closed /\ listenPc = "idle"

\* C18: a listen() whose dial fails or whose INITIALIZE_HOST_V2 is answered with an
\* error returns after close(): #serverRPC is cleared, the client is not connected, the
\* socket it opened is closing or closed, no registration record is stored, no reconnect
\* loop runs and nothing more is dialled, and the close handler of the socket ends
\* without reconnecting.
C18_ListenAborts ==
    /\ [](Aborted =>
            /\ serverRPC = 0 /\ ~isConnected
            /\ registerResponse = 0
            /\ Len(conns) = 1 /\ Len(loops) = 0
            /\ conns[1].st \in {"closing", "closed"}
            /\ conns[1].host \in {"none", "failed"})
    /\ [][\A c \in ConnIds :
             (Aborted /\ conns'[c].onClose = "done" /\ conns[c].onClose # "done")
                 => (Len(conns') = Len(conns) /\ Len(loops') = 0 /\ ~isConnected')]_vars

\* the handshake was answered with an error and the close event of the socket that
\* close() closed was taken as a close by the user
C18_Witness ==
    /\ Aborted
    /\ conns[1].host = "failed" /\ conns[1].st = "closed"
    /\ conns[1].closedBy = "user" /\ conns[1].onClose = "done"
    /\ ~closedByUser

----------------------------------------------------------------------------
(* Properties of the handshake of a reconnect (SpecReconnect) *)

\* C19: a connection of the reconnect loop whose INITIALIZE_HOST_V2 was answered with
\* an error does not stay open as the client's connection, and whenever the client is
\* connected through a reconnect whose handshake has ended, the registration record is
\* the one that handshake returned.
C19_FailedReissueCloses ==
    \A c \in ConnIds :
        conns[c].via = "reconnect" =>
            /\ conns[c].host = "failed" => ~(conns[c].st = "open" /\ isConnected
                                                                  /\ connection = c)
            /\ (conns[c].host \in {"ok", "failed"} /\ conns[c].st = "open"
                    /\ isConnected /\ connection = c)
                   => registerResponse = conns[c].initOn

----------------------------------------------------------------------------
(* Properties of #send in the handshake (SpecListenFair) *)

\* where the handshake of connection c stands, "none" when c was never dialled
HostOf(c) == IF c \in ConnIds THEN conns[c].host ELSE "none"

\* C20: after a TimeoutError the handshake sleeps and sends INITIALIZE_HOST_V2 again,
\* each time, and never gives up; after any other error it ends at once and sends
\* nothing more; and with a server that replies it ends, registered or failed.
C20_HandshakeRetries ==
    /\ [][\A c \in ConnIds :
            /\ conns[c].host = "sleep" =>
                  \/ conns'[c] = conns[c]
                  \/ conns'[c].host = "sent" /\ conns'[c].tries = conns[c].tries + 1
            /\ conns[c].host \in {"ok", "failed"} => conns'[c].tries = conns[c].tries
            /\ conns'[c].host = "failed" /\ conns[c].host # "failed"
                  => conns[c].host \in {"sent", "probe"}]_vars
    /\ \A c \in 1..MaxConns : (HostOf(c) = "sleep") ~> (HostOf(c) = "sent")
    /\ \A c \in 1..MaxConns : (HostOf(c) = "sent") ~> (HostOf(c) \in {"ok", "failed"})

\* the handshake was registered at its last allowed attempt, after timeouts
C20_Witness ==
    \E c \in ConnIds : conns[c].host = "ok" /\ conns[c].tries = MaxTries /\ MaxTries > 1

----------------------------------------------------------------------------
(* Properties of concurrent runs (SpecPairs) *)

C24_EntryRemovedOnSettle ==
    \A t \in Tables, ck \in CallKeys :
        callbacks[t][ck] # 0 => calls[callbacks[t][ck]].p = "pending"

----------------------------------------------------------------------------
(* Properties of runOnceLocalOnly (SpecLocalOnly) *)

\* the runOnceLocalOnly calls
LocalOnlyCalls == {i \in CallIds : calls[i].op = "runOnceLocalOnly"}

\* C22: runOnceLocalOnly sends INITIALIZE_RUN_ONCE with type LOCAL_ONLY and nothing
\* else (no COMPLETE_RUN_ONCE); its callback is not invoked before the reply and the
\* acknowledgement of the intent, and once both are there it is invoked exactly once
\* with the idempotencyKey of the reply, whatever hasRun the reply carries, and the
\* call returns what the callback returned.
C22_LocalOnlyAlwaysRuns ==
    \A i \in LocalOnlyCalls :
        /\ OpIntent(calls[i].op) = "INITIALIZE_RUN_ONCE" /\ calls[i].type = "LOCAL_ONLY"
        /\ calls[i].nrpc = 1 /\ calls[i].sent = "none"
        /\ calls[i].st # "completeSending"
        /\ IF calls[i].p = "resolved" /\ calls[i].st # "sending" /\ calls[i].by # "send"
           THEN /\ calls[i].st = "resolved"
                /\ calls[i].cb = 1 /\ calls[i].arg = calls[i].data.idempotencyKey
                /\ calls[i].ret = calls[i].options.cbRet
           ELSE calls[i].cb = 0 /\ calls[i].arg = "none" /\ calls[i].ret = "none"

\* the server reported hasRun = true with a stored output and the callback ran all the
\* same, with the second idempotency key, and its result was returned
C22_Witness ==
    \E i \in LocalOnlyCalls :
        /\ calls[i].st = "resolved" /\ calls[i].data.hasRun /\ calls[i].data.output = "obj"
        /\ calls[i].cb = 1 /\ calls[i].arg = "idem2" /\ calls[i].ret = "42"

----------------------------------------------------------------------------
(* Properties of whole runs (SpecWorkflow) *)

\* C23: a server-to-client handler that ends without throwing returns true, whether
\* it found callbacks or not and whether the event was valid or not: the last handler
\* to end, and the TRIGGER_WORKFLOW handler of every run, returned true, threw, or has
\* not ended yet.
C23_HandlersReturnTrue ==
    /\ ack.ret \notin {"none", "pending", "throw"} => ack.ret = "true"
    /\ \A r \in RunIds : runs[r].handler \notin {"none", "throw"} => runs[r].handler = "true"
    /\ \A r \in RunIds : runs[r].valid => runs[r].handler = "true"

\* the handlers of a valid and of an invalid TRIGGER_WORKFLOW returned true, and then a
\* RESOLVE_* that settled a call
C23_Witness ==
    /\ ack = [ret |-> "true", found |-> TRUE, settled |-> FALSE]
    /\ \E i \in CallIds : calls[i].msg # <<>>
    /\ \E r, q \in RunIds :
          /\ runs[r].valid /\ runs[r].handler = "true"
          /\ FailedValidation(q) /\ runs[q].handler = "true"

\* run r has ended: its COMPLETE_WORKFLOW_RUN or its last SEND_WORKFLOW_ERROR settled
Finished(r) == runs[r].st \in {"completed", "errored"}

\* C25: once COMPLETE_WORKFLOW_RUN or SEND_WORKFLOW_ERROR has completed for run r, no
\* table holds an entry under a callKey of r and no call of r is still suspended.
C25_FinishedRunCleared ==
    \A r \in RunIds :
        Finished(r) =>
            /\ \A t \in Tables, k \in Keys : callbacks[t][messageKey(r, k)] = 0
            /\ \A i \in CallIds : calls[i].run = r => calls[i].st # "awaiting"

\* the state of a run in READY -> VALIDATING -> RUNNING -> (COMPLETED | ERRORED): READY
\* before its TRIGGER_WORKFLOW; VALIDATING until START_WORKFLOW_RUN is acknowledged or
\* the report of the validation error settles; RUNNING while the user function is
\* executing; COMPLETED from the emission of COMPLETE_WORKFLOW_RUN and ERRORED from the
\* emission of a SEND_WORKFLOW_ERROR by the promise chain
Phase(run) ==
    CASE run.st = "idle" -> "READY"
      [] run.st \in {"starting", "validationError"} -> "VALIDATING"
      [] run.st = "running" -> "RUNNING"
      [] run.st \in {"completing", "completed"} -> "COMPLETED"
      [] run.st \in {"innerError", "outerError", "errored"} -> "ERRORED"

\* the transitions of the state machine
PhaseSteps == {<<"READY", "VALIDATING">>, <<"VALIDATING", "RUNNING">>,
               <<"VALIDATING", "ERRORED">>, <<"RUNNING", "COMPLETED">>,
               <<"RUNNING", "ERRORED">>}

\* C26: every run moves along READY -> VALIDATING -> RUNNING -> (COMPLETED | ERRORED)
\* and in no other way; a run whose event failed validation is never RUNNING; a run
\* with a suspended call is RUNNING; and a run that is COMPLETED or ERRORED changes
\* state no more and emits no further COMPLETE_WORKFLOW_RUN or SEND_WORKFLOW_ERROR.
C26_RunStateMachine ==
    /\ [][\A r \in RunIds :
            /\ Phase(runs'[r]) # Phase(runs[r])
                  => <<Phase(runs[r]), Phase(runs'[r])>> \in PhaseSteps
            /\ Phase(runs[r]) \in {"COMPLETED", "ERRORED"}
                  => /\ runs'[r].nComplete = runs[r].nComplete
                     /\ runs'[r].nError = runs[r].nError]_vars
    /\ [](\A r \in RunIds :
            FailedValidation(r) => (~runs[r].invoked /\ Phase(runs[r]) # "RUNNING"))
    /\ [](\A i \in CallIds :
            calls[i].st = "awaiting" => Phase(runs[calls[i].run]) = "RUNNING")

----------------------------------------------------------------------------
(* Properties of the error reports of the promise chain (SpecRun, SpecErrors) *)

\* C27: when the send of START_WORKFLOW_RUN fails, the user function of that run is
\* never invoked, no COMPLETE_WORKFLOW_RUN is sent, and a SEND_WORKFLOW_ERROR is sent
\* for the run whose error is what the send rejected with, as it was caught.
C27_StartFailureReported ==
    \A r \in RunIds :
        "START" \in runs[r].failed =>
            /\ ~runs[r].invoked /\ runs[r].outcome = "none"
            /\ runs[r].nComplete = 0
            /\ runs[r].nError = 1 /\ runs[r].error \in SendFailures
            /\ Phase(runs[r]) = "ERRORED"

\* START_WORKFLOW_RUN timed out for one run and was refused for another; both reports
\* went out with the cause and were acknowledged
C27_Witness ==
    \E r, q \in RunIds :
        /\ "START" \in runs[r].failed /\ runs[r].st = "errored" /\ runs[r].error = "timeout"
        /\ "START" \in runs[q].failed /\ runs[q].st = "errored" /\ runs[q].error = "rejected"

\* the runs whose user function threw and whose only SEND_WORKFLOW_ERROR so far is the
\* one of the inner catch
ThrewOnce == {r \in RunIds : runs[r].outcome = "threw" /\ runs[r].nError = 1}

\* C29: the error of the SEND_WORKFLOW_ERROR sent after the user function threw v is
\* {name, message, stackTrace} of v when v is an Error; has name and message, perhaps
\* stackTrace, and no other key when v is another object with a string name and a
\* string message; and is {name: "UnknownError", message: "An unknown error occurred"}
\* for every other v.
C29_ErrorNormalized ==
    \A r \in ThrewOnce :
        LET v == runs[r].thrown
            e == runs[r].error
        IN IF v \in ErrorInstances
           THEN e = Normalized(v)
           ELSE IF {"name", "message"} \subseteq StringKeys(v)
                THEN /\ {"name", "message"} \subseteq ReportKeys(e)
                     /\ ReportKeys(e) \subseteq {"name", "message", "stackTrace"}
                ELSE e = "UnknownError"

----------------------------------------------------------------------------
(* Properties of the order of registration and intents (SpecCalls, SpecPairs) *)

\* C30: the (resolve, reject) pair of a journaled operation is in its table when its
\* intent RPC goes out, so that whatever RESOLVE_* / REJECT_* answers the intent of a
\* call, the lookup of its handler under the (runId, key) of the call finds an entry.
C30_RegisteredBeforeIntent ==
    \A i \in CallIds, m \in HostMethods :
        MethodTable(m) = OpTable(calls[i].op)
            => Lookup(callbacks, m, calls[i].run, calls[i].key) # 0

\* the reply to an intent arrived before the send of the intent was acknowledged, and
\* its handler found the pair and settled the call
C30_Witness ==
    /\ ack = [ret |-> "true", found |-> TRUE, settled |-> FALSE]
    /\ \E i \in CallIds : calls[i].st = "sending" /\ calls[i].p # "pending"

\* the place of the intent of call i on the wire: the connection it was written to and
\* its position among the intents of that connection; <<0, 0>> when it was not written
Wire(i) ==
    LET at == {<<c, n>> \in ConnIds \X (1..Len(calls)) :
                   n <= Len(conns[c].intents) /\ conns[c].intents[n] = i}
    IN IF at = {} THEN <<0, 0>> ELSE CHOOSE w \in at : TRUE

----------------------------------------------------------------------------
(* Properties of inbound handling beside suspended runs (SpecWorkflow) *)

\* a method that resolves the calls of operation op
ResolveOf(op) == CHOOSE m \in ResolveMethods : MethodTable(m) = OpTable(op)

\* C31: the TRIGGER_WORKFLOW handler of a valid event has returned true as soon as the
\* run is started, whatever the user function does after; and while a call of a run is
\* suspended, the RESOLVE_* addressed to it can be handled, and so can the
\* TRIGGER_WORKFLOW of any run not yet triggered.
C31_HandlerDoesNotWaitForRun ==
    /\ \A r \in RunIds :
          (runs[r].valid /\ ~Finished(r)) => runs[r].handler = "true"
    /\ \A i \in CallIds :
          calls[i].st = "awaiting" =>
              /\ ENABLED HandleHostMethod(ResolveOf(calls[i].op), calls[i].run,
                                          calls[i].key, FALSE)
              /\ \A q \in RunIds :
                    runs[q].st = "idle" => ENABLED TriggerWorkflow(q, TRUE)

\* while one run was suspended on a call, another run was triggered and is executing,
\* and the call of the first was then resumed by its RESOLVE_*
C31_Witness ==
    \E i \in CallIds, q \in RunIds :
        /\ q # calls[i].run
        /\ runs[q].st = "running" /\ runs[q].handler = "true"
        /\ runs[calls[i].run].st = "running"
        /\ calls[i].st = "resolved" /\ calls[i].by = "message"

----------------------------------------------------------------------------
(* Properties of the terminal messages of a run (SpecRun) *)

\* C32: a run never emits the same terminal message twice: not two
\* SEND_WORKFLOW_ERROR for one runId (nor two COMPLETE_WORKFLOW_RUN), whatever the
\* outcome of the send of the terminal message itself.  Together with
\* C1_NeverBothTerminal this is "at most one terminal message in total".
C32_OneTerminalMessage ==
    \A r \in RunIds : runs[r].nComplete <= 1 /\ runs[r].nError <= 1

----------------------------------------------------------------------------
(* Properties of close() and of the reconnect loop (Spec) *)

\* C33: close() suppresses the reconnect only of the connection it closes: when a
\* connection that a listen() after the last close() established is closed by the
\* peer, its onClose handler does not return at the #closedByUser check, whatever
\* listen(), close() and close events came before.
C33_CloseSuppressesOwnConnectionOnly ==
    [][\A c \in ConnIds :
          (/\ conns[c].via = "listen" /\ ~closed
           /\ conns[c].st = "open" /\ conns'[c].st = "closed"
           /\ conns'[c].closedBy = "peer")
              => conns'[c].onClose # "done"]_vars

\* the dial attempts of reconnect loops whose connect() has not settled
DialsInFlight == {c \in ConnIds : conns[c].via = "reconnect" /\ conns[c].st = "dialing"}

\* C34: a reconnect loop has at most one dial attempt in flight at a time, and no
\* channel is open beside the client's current connection.
C34_OneDialInFlight ==
    /\ Cardinality(DialsInFlight) <= 1
    /\ \A c \in ConnIds : conns[c].st = "open" => c = connection

----------------------------------------------------------------------------
(* Properties of calls that share a table entry (SpecPairs) *)

\* calls i and j of one run registered under the same key in the same table
SameEntry(i, j) ==
    /\ calls[i].run = calls[j].run /\ calls[i].key = calls[j].key
    /\ OpTable(calls[i].op) = OpTable(calls[j].op)

\* C35: when two calls of a run are suspended under the same key in the same table, a
\* matching RESOLVE_* fulfils both: once a message has settled the later call, the
\* earlier one, still suspended in its operation, is not left with a pending promise.
C35_BothCallsFulfilled ==
    \A i, j \in CallIds :
        (/\ i < j /\ SameEntry(i, j)
         /\ calls[j].msg # <<>>
         /\ calls[i].st \in {"sending", "awaiting"})
            => calls[i].p # "pending"

----------------------------------------------------------------------------
(* Properties of a message delivered again (SpecRedelivery) *)

\* C36: a RESOLVE_* / REJECT_* delivered for a (runId, key) whose registered call has
\* had its promise settled by an earlier delivery is acknowledged with true and
\* changes nothing: not the outcome of that call, not any other call, table or run;
\* and the callback of a call runs at most once.
C36_SecondDeliveryChangesNothing ==
    [][/\ \A i \in 1..Len(calls') : calls'[i].cb <= 1
       /\ \A m \in HostMethods, r \in RunIds, key \in Keys, hasRun \in BOOLEAN :
              (/\ Lookup(callbacks, m, r, key) # 0
               /\ calls[Lookup(callbacks, m, r, key)].p # "pending"
               /\ HandleHostMethod(m, r, key, hasRun))
                  => /\ calls' = calls /\ callbacks' = callbacks /\ runs' = runs
                     /\ ack'.ret = "true"]_vars

\* a call that a message fulfilled, its callback run once, has just had a message
\* delivered again for its key, while another call is suspended
C36_Witness ==
    /\ ack = [ret |-> "true", found |-> TRUE, settled |-> TRUE]
    /\ \E i, j \in CallIds :
          /\ calls[i].msg # <<>> /\ calls[i].st = "resolved" /\ calls[i].cb = 1
          /\ calls[j].st = "awaiting" /\ calls[j].p = "pending"

----------------------------------------------------------------------------
(* Properties of the call key (SpecKeys) *)

\* C37: messageKey is injective: two calls made under distinct (runId, userKey) pairs
\* never have the same callKey, whatever strings the run ids and the user keys are.
C37_MessageKeyInjective ==
    \A i, j \in CallIds :
        messageKey(calls[i].run, calls[i].key) = messageKey(calls[j].run, calls[j].key)
            => (calls[i].run = calls[j].run /\ calls[i].key = calls[j].key)

====
